---- MODULE Spec2Model ----
(***************************************************************************)
(* csharp-mem: typed views over the memory of a foreign process            *)
(* (src/src/lib.rs) and the derive macro that generates lazily resolved    *)
(* class bindings (src/derive/src/lib.rs).                                 *)
(*                                                                         *)
(* Three developments share this module:                                   *)
(*   SpecGen      inner::process, the macro's validation and shape choice  *)
(*   Spec         a generated binding at run time: bind / class / read     *)
(*   SpecPointer  Pointer<T>: resolve, read, resolve_with, resolve_as_with,*)
(*                deref                                                    *)
(* An Option<T> is a set: {} is None and {v} is Some(v).                   *)
(***************************************************************************)
EXTENDS Integers, Sequences, FiniteSets, TLC

VARIABLES
    desc,      \* the derive input: the item the macro is applied to
    gen,       \* what inner::process returned for desc ({} before it ran)
    pc,        \* "source" | "generated" | "bound" | "panicked"
    class,     \* binding.class : Option<Class>
    slots,     \* binding.<field> : Option<Address> / Option<NonZeroU32>, by declared field
    mem,       \* memory of the game process: address -> Option<value>
    writes,    \* number of changes the target made to its memory
    calls,     \* number of class/read calls made on the binding
    last,      \* what the last class/read call did
    total,     \* reflection lookups issued since bind
    lastOk,    \* Option<the last read that returned a value>
    resolved,  \* some read got past its lookups, to the data reads
    heap,      \* memory behind the MemReader handed to Pointer operations
    ptr,       \* Pointer.address
    pout,      \* what the last Pointer operation did
    tsize,     \* size_of::<T>() of the element type of the view
    view,      \* Option<the view that resolve returned>
    iter,      \* Option<the iterator that iter/chars returned>
    yielded,   \* the items the iterator has yielded, with the address of each
    issued,    \* the addresses the iterator of an Array has read, in order
    vout       \* what the last operation on the view did

genVars == <<desc, gen>>
bindVars == <<pc, class, slots, mem, writes, calls, last, total, lastOk, resolved>>
ptrVars == <<heap, ptr, pout>>
viewVars == <<tsize, view, iter, yielded, issued, vout>>
vars == <<desc, gen, pc, class, slots, mem, writes, calls, last, total, lastOk,
          resolved, heap, ptr, pout, tsize, view, iter, yielded, issued,
          vout>>

None == {}
Some(v) == {v}
Unwrap(o) == CHOOSE v \in o : TRUE

(***************************************************************************)
(* Bounds of the model.                                                    *)
(***************************************************************************)
MaxFields == 2     \* fields per struct
MaxAddr == 2       \* addresses, offsets and values of the game process are 0..MaxAddr
MaxWrites == 1     \* changes the target makes to its memory
MaxCalls == 3      \* class/read calls on one binding
MaxPtr == 1        \* objects behind the MemReader sit at 0, 64, .., 64 * MaxPtr
MaxWord == 1       \* a mapped word behind the MemReader holds 0..MaxWord
MaxLen == 2        \* lengths in the headers of the views are 0..MaxLen
MaxTSize == 2      \* size_of::<T>() is 1..MaxTSize
MaxReads == 3      \* reads followed of one iterator of an Array

(***************************************************************************)
(* The derive input.                                                       *)
(*   shape   "named" / "tuple" struct, or "other" (enum, union)            *)
(*   rename  what parse_rename finds among the attributes:                 *)
(*           "none" no usable #[rename], "ok" #[rename = "..."],           *)
(*           "bad" a #[rename] that is not a name-value attribute          *)
(***************************************************************************)
Renames == {"none", "ok", "bad"}

Field == [is_static : BOOLEAN, is_singleton : BOOLEAN, rename : Renames]

SeqsUpTo(S, n) == UNION {[1..k -> S] : k \in 0..n}

Inputs == [shape : {"named", "tuple", "other"}, rename : Renames,
           fields : SeqsUpTo(Field, MaxFields)]

Err(msg) == [ok |-> FALSE, err |-> msg]

(***************************************************************************)
(* inner::process, lines 169-271: validation of the field list.            *)
(***************************************************************************)
FieldSpec(f, i) ==
    [is_singleton |-> f.is_singleton, field_name |-> i, renamed |-> f.rename = "ok"]

\* The check for an earlier singleton never fires.
HasSingleton_Never(specs) == FALSE

\* line 216: non_static_specs.iter().any(|o| o.is_singleton)
HasSingleton(specs) == \E k \in 1..Len(specs) : specs[k].is_singleton

\* The loop over struct_data.fields from field i on, with the two vectors
\* built so far. The first error returns.
RECURSIVE ProcessFields(_, _, _, _, _)
ProcessFields(shape, fields, i, static_specs, non_static_specs) ==
    IF i > Len(fields)
    THEN [ok |-> TRUE, static_specs |-> static_specs,
          non_static_specs |-> non_static_specs]
    ELSE LET f == fields[i] IN
         IF shape = "tuple"
         THEN Err("Cannot have unnamed fields.")
         ELSE IF f.is_singleton /\ f.is_static
         THEN Err("Singleton fields are implied to be static, both attributes are invalid.")
         ELSE IF f.is_singleton /\ HasSingleton(non_static_specs)
         THEN Err("Cannot have more than one singleton field in a struct")
         ELSE IF f.rename = "bad"
         THEN Err("rename is not a name-value attribute")
         ELSE IF f.is_static
         THEN ProcessFields(shape, fields, i + 1,
                            Append(static_specs, FieldSpec(f, i)), non_static_specs)
         ELSE ProcessFields(shape, fields, i + 1,
                            static_specs, Append(non_static_specs, FieldSpec(f, i)))

(***************************************************************************)
(* generate_binding, lines 388-499: the shape of the generated items.      *)
(*   params  TRUE iff read takes `instance: ::asr::Address`                *)
(***************************************************************************)
GenerateBinding(class_renamed, params, fields2) ==
    [ok |-> TRUE,
     class_renamed |-> class_renamed,
     fields |-> fields2,
     instance_param |-> params,
     has_read |-> fields2 # <<>>,
     has_read_pointer |-> params]

\* static_binding, lines 273-308
StaticBinding(class_renamed, fields) ==
    GenerateBinding(class_renamed, FALSE,
        [k \in 1..Len(fields) |->
            [name |-> fields[k].field_name,
             typ |-> "Address",
             lookup |-> "get_static_field",
             read |-> "slot",
             binding |-> fields[k].field_name,
             renamed |-> fields[k].renamed]])

\* The local `__internal_instance__` (line 317); every other local is
\* `__internal_field_<name>`, written as the field's declared index (>= 1).
SINGLETON_NAME == 0

IsSingletonSpec(o) == o.is_singleton
NotSingletonSpec(o) == ~o.is_singleton

\* The fields stay in declaration order.
SortSingletonFirst_Unsorted(fields) == fields

\* fields.sort_by_key(|o| !o.is_singleton), line 319: a stable sort on a
\* boolean key, false (the singleton) before true.
SortSingletonFirst(fields) ==
    SelectSeq(fields, IsSingletonSpec) \o SelectSeq(fields, NotSingletonSpec)

\* non_static_binding, lines 310-378
NonStaticBinding(class_renamed, fields0) ==
    LET fields == SortSingletonFirst(fields0)
        has_singleton_name == Len(fields) > 0 /\ fields[1].is_singleton
    IN  GenerateBinding(class_renamed, ~has_singleton_name,
            [k \in 1..Len(fields) |->
                IF fields[k].is_singleton
                THEN [name |-> fields[k].field_name,
                      typ |-> "Address",
                      lookup |-> "get_static_field",
                      read |-> "slot",
                      binding |-> SINGLETON_NAME,
                      renamed |-> fields[k].renamed]
                ELSE [name |-> fields[k].field_name,
                      typ |-> "NonZeroU32",
                      lookup |-> "get_field",
                      read |-> IF has_singleton_name THEN "singleton+slot"
                                                     ELSE "instance+slot",
                      binding |-> fields[k].field_name,
                      renamed |-> fields[k].renamed]])

\* inner::process, lines 169-271
Process(input) ==
    IF input.shape = "other" THEN Err("Only structs are supported.")
    ELSE IF input.rename = "bad" THEN Err("rename is not a name-value attribute")
    ELSE LET r == ProcessFields(input.shape, input.fields, 1, <<>>, <<>>) IN
         IF ~r.ok THEN r
         ELSE IF r.static_specs # <<>> /\ r.non_static_specs # <<>>
         THEN Err("Cannot have both static and non-static fields in a struct")
         ELSE IF r.non_static_specs = <<>>
         THEN StaticBinding(input.rename = "ok", r.static_specs)
         ELSE NonStaticBinding(input.rename = "ok", r.non_static_specs)


(***************************************************************************)
(* The generated binding at run time (the quoted code of generate_binding, *)
(* lines 427-497). The reflection capability (get_class, get_static_field, *)
(* get_field) is external: each call of class/read is given its answers.   *)
(***************************************************************************)
Addr == 0..MaxAddr
\* get_class answers None or the handle of the class
Handles == {"Class"}
\* get_static_field answers None or an address, get_field None or an offset
LookupVals == Addr
Opt(S) == {None} \cup {Some(v) : v \in S}

NoCall == [op |-> "none"]

\* game.process().read(addr), lines 454: absent outside of mapped memory
ProcessRead(m, addr) == IF addr \in DOMAIN m THEN m[addr] ELSE None

\* A retry loop around the class lookup: a failed lookup is tried again.
ResolveClass_Retry(cls, clsAns) ==
    IF cls # None THEN [ok |-> TRUE, class |-> cls, lookups |-> 0]
    ELSE IF clsAns = None THEN [ok |-> FALSE, class |-> None, lookups |-> 2]
    ELSE [ok |-> TRUE, class |-> clsAns, lookups |-> 1]

\* The cached handle is not consulted: every call looks the class up.
ResolveClass_NoCache(cls, clsAns) ==
    IF clsAns = None THEN [ok |-> FALSE, class |-> cls, lookups |-> 1]
    ELSE [ok |-> TRUE, class |-> clsAns, lookups |-> 1]

\* The cached handle is moved out of its slot (self.class.take()) and not
\* put back.
ResolveClass_Take(cls, clsAns) ==
    IF cls # None THEN [ok |-> TRUE, class |-> None, lookups |-> 0]
    ELSE IF clsAns = None THEN [ok |-> FALSE, class |-> None, lookups |-> 1]
    ELSE [ok |-> TRUE, class |-> clsAns, lookups |-> 1]

\* lines 433-440 and 473-480: self.class, or get_class(..)? and store
ResolveClass(cls, clsAns) ==
    IF cls # None THEN [ok |-> TRUE, class |-> cls, lookups |-> 0]
    ELSE IF clsAns = None THEN [ok |-> FALSE, class |-> None, lookups |-> 1]
    ELSE [ok |-> TRUE, class |-> clsAns, lookups |-> 1]

\* The offset is taken as it comes: no NonZeroU32, no expect.
Lookup_NoExpect(fd, a) ==
    IF a = None THEN [status |-> "none"]
    ELSE [status |-> "ok", field |-> Unwrap(a)]

\* #lookups: lines 292 and 340 (get_static_field(..)?), lines 349-352
\* (NonZeroU32::new(get_field(..)?).expect(..)). a is the capability's answer.
Lookup(fd, a) ==
    IF a = None THEN [status |-> "none"]
    ELSE IF fd.lookup = "get_field" /\ Unwrap(a) = 0 THEN [status |-> "panic"]
    ELSE [status |-> "ok", field |-> Unwrap(a)]

Seen(st, fd, ans) ==
    Append(st.looked, [name |-> fd.name, lookup |-> fd.lookup, ans |-> ans[fd.name]])

\* The looked-up field is used but `self.#field_names = Some(field)` is missing.
LookupOne_Forget(fd, st, ans) ==
    IF st.slots[fd.name] # None
    THEN [st EXCEPT !.env[fd.binding] = Unwrap(st.slots[fd.name])]
    ELSE LET r == Lookup(fd, ans[fd.name]) IN
         IF r.status # "ok"
         THEN [st EXCEPT !.status = r.status, !.looked = Seen(st, fd, ans)]
         ELSE [st EXCEPT !.env[fd.binding] = r.field,
                         !.looked = Seen(st, fd, ans)]

\* A failed lookup resets the slots of the binding.
LookupOne_ClearOnFail(fd, st, ans) ==
    IF st.slots[fd.name] # None
    THEN [st EXCEPT !.env[fd.binding] = Unwrap(st.slots[fd.name])]
    ELSE LET r == Lookup(fd, ans[fd.name]) IN
         IF r.status # "ok"
         THEN [st EXCEPT !.status = r.status, !.looked = Seen(st, fd, ans),
                         !.slots = [n \in DOMAIN st.slots |-> None]]
         ELSE [st EXCEPT !.slots[fd.name] = Some(r.field),
                         !.env[fd.binding] = r.field,
                         !.looked = Seen(st, fd, ans)]

\* lines 443-450: `let #binding_names = match self.#field_names {..}` for one
\* field: the cached value, or the lookup, stored on success.
LookupOne(fd, st, ans) ==
    IF st.slots[fd.name] # None
    THEN [st EXCEPT !.env[fd.binding] = Unwrap(st.slots[fd.name])]
    ELSE LET r == Lookup(fd, ans[fd.name]) IN
         IF r.status # "ok"
         THEN [st EXCEPT !.status = r.status, !.looked = Seen(st, fd, ans)]
         ELSE [st EXCEPT !.slots[fd.name] = Some(r.field),
                         !.env[fd.binding] = r.field,
                         !.looked = Seen(st, fd, ans)]

\* lines 442-451: the repetition over the generated fields, from field k on;
\* a `?` or the expect leaves the function.
RECURSIVE LookupFields(_, _, _, _)
LookupFields(fields, k, st, ans) ==
    IF k > Len(fields) \/ st.status # "ok" THEN st
    ELSE LookupFields(fields, k + 1, LookupOne(fields[k], st, ans), ans)

\* The plain fields of a singleton class read from the instance argument
\* (absent, so 0) instead of the singleton's value.
ReadExpr_NoSingleton(fd, env, instance) ==
    CASE fd.read = "slot" -> env[fd.binding]
      [] fd.read = "instance+slot" -> instance + env[fd.binding]
      [] fd.read = "singleton+slot" -> instance + env[fd.binding]

\* #reads: lines 293, 341 (the resolved address), 354 (the singleton's value
\* plus the offset), 355 (instance plus the offset)
ReadExpr(fd, env, instance) ==
    CASE fd.read = "slot" -> env[fd.binding]
      [] fd.read = "instance+slot" -> instance + env[fd.binding]
      [] fd.read = "singleton+slot" -> env[SINGLETON_NAME] + env[fd.binding]

\* A failed data read leaves a zeroed field and the call goes on.
ReadOne_Partial(fd, st, instance, m) ==
    LET addr == ReadExpr(fd, st.env, instance)
        v == ProcessRead(m, addr)
        log == Append(st.reads, [name |-> fd.name, addr |-> addr, val |-> v])
    IN  IF v = None
        THEN [st EXCEPT !.env[fd.binding] = 0, !.reads = log]
        ELSE [st EXCEPT !.env[fd.binding] = Unwrap(v), !.reads = log]

\* line 454: `let #binding_names = game.process().read(#reads)..ok()?` for one
\* field; it rebinds the field's local to the value read.
ReadOne(fd, st, instance, m) ==
    LET addr == ReadExpr(fd, st.env, instance)
        v == ProcessRead(m, addr)
        log == Append(st.reads, [name |-> fd.name, addr |-> addr, val |-> v])
    IN  IF v = None
        THEN [st EXCEPT !.ok = FALSE, !.reads = log]
        ELSE [st EXCEPT !.env[fd.binding] = Unwrap(v), !.reads = log]

\* lines 453-455: the repetition over the generated fields, from field k on
RECURSIVE ReadFields(_, _, _, _, _)
ReadFields(fields, k, st, instance, m) ==
    IF k > Len(fields) \/ ~st.ok THEN st
    ELSE ReadFields(fields, k + 1, ReadOne(fields[k], st, instance, m), instance, m)

\* line 457: #struct_name { #(#field_names: #binding_names,)* }
Aggregate(fields, env) ==
    [n \in {fields[k].name : k \in 1..Len(fields)} |->
        env[fields[CHOOSE k \in 1..Len(fields) : fields[k].name = n].binding]]


\* The locals of read before any `let`: nothing is bound yet.
NoEnv(fields) ==
    [b \in {SINGLETON_NAME} \cup {fields[k].name : k \in 1..Len(fields)} |-> 0]

\* A read that stores what it looked up only when it returns a value: a
\* failed data read leaves the binding as it was before the call.
ReadImpl_Rollback(fields, cls, sl, m, instance, clsAns, ans) ==
    LET c == ResolveClass(cls, clsAns)
        base == [ret |-> "none", value |-> <<>>, class |-> c.class, slots |-> sl,
                 class_lookups |-> c.lookups, looked |-> <<>>, reads |-> <<>>,
                 resolved |-> FALSE]
    IN  IF ~c.ok THEN base
        ELSE LET l == LookupFields(fields, 1,
                          [status |-> "ok", slots |-> sl, env |-> NoEnv(fields),
                           looked |-> <<>>], ans)
                 found == [base EXCEPT !.slots = l.slots, !.looked = l.looked]
             IN  IF l.status # "ok" THEN [found EXCEPT !.ret = l.status]
                 ELSE LET d == ReadFields(fields, 1,
                                   [ok |-> TRUE, env |-> l.env, reads |-> <<>>],
                                   instance, m)
                      IN  IF ~d.ok
                          THEN [base EXCEPT !.class = cls, !.looked = l.looked,
                                            !.reads = d.reads]
                          ELSE [found EXCEPT !.ret = "some",
                                             !.value = Aggregate(fields, d.env),
                                             !.reads = d.reads,
                                             !.resolved = TRUE]

\* A read that resolves and reads field by field: the data of the fields
\* before the one whose lookup fails has been read by then.
ReadImpl_Interleaved(fields, cls, sl, m, instance, clsAns, ans) ==
    LET c == ResolveClass(cls, clsAns)
        base == [ret |-> "none", value |-> <<>>, class |-> c.class, slots |-> sl,
                 class_lookups |-> c.lookups, looked |-> <<>>, reads |-> <<>>,
                 resolved |-> FALSE]
    IN  IF ~c.ok THEN base
        ELSE LET l == LookupFields(fields, 1,
                          [status |-> "ok", slots |-> sl, env |-> NoEnv(fields),
                           looked |-> <<>>], ans)
                 found == [base EXCEPT !.slots = l.slots, !.looked = l.looked]
                 before == {k \in 0..Len(fields) :
                               \A j \in 1..k : l.slots[fields[j].name] # None}
                 prefix == SubSeq(fields, 1,
                                  CHOOSE k \in before : \A j \in before : j <= k)
             IN  IF l.status # "ok"
                 THEN [found EXCEPT !.ret = l.status,
                          !.reads = ReadFields(prefix, 1,
                                       [ok |-> TRUE, env |-> l.env, reads |-> <<>>],
                                       instance, m).reads]
                 ELSE LET d == ReadFields(fields, 1,
                                   [ok |-> TRUE, env |-> l.env, reads |-> <<>>],
                                   instance, m)
                      IN  IF ~d.ok
                          THEN [found EXCEPT !.reads = d.reads, !.resolved = TRUE]
                          ELSE [found EXCEPT !.ret = "some",
                                             !.value = Aggregate(fields, d.env),
                                             !.reads = d.reads,
                                             !.resolved = TRUE]

\* The whole of read(&mut self, game, instance), lines 428-458, on the
\* binding (cls, sl) against memory m, the capability answering clsAns for
\* the class and ans[f] for field f.
ReadImpl(fields, cls, sl, m, instance, clsAns, ans) ==
    LET c == ResolveClass(cls, clsAns)
        base == [ret |-> "none", value |-> <<>>, class |-> c.class, slots |-> sl,
                 class_lookups |-> c.lookups, looked |-> <<>>, reads |-> <<>>,
                 resolved |-> FALSE]
    IN  IF ~c.ok THEN base
        ELSE LET l == LookupFields(fields, 1,
                          [status |-> "ok", slots |-> sl, env |-> NoEnv(fields),
                           looked |-> <<>>], ans)
                 found == [base EXCEPT !.slots = l.slots, !.looked = l.looked]
             IN  IF l.status # "ok" THEN [found EXCEPT !.ret = l.status]
                 ELSE LET d == ReadFields(fields, 1,
                                   [ok |-> TRUE, env |-> l.env, reads |-> <<>>],
                                   instance, m)
                      IN  IF ~d.ok
                          THEN [found EXCEPT !.reads = d.reads, !.resolved = TRUE]
                          ELSE [found EXCEPT !.ret = "some",
                                             !.value = Aggregate(fields, d.env),
                                             !.reads = d.reads,
                                             !.resolved = TRUE]

CountOf(looked, kind) ==
    Cardinality({k \in 1..Len(looked) : looked[k].lookup = kind})

(***************************************************************************)
(* Actions of a binding.                                                   *)
(***************************************************************************)
\* The answers the capability can give to a call made only when the cache
\* `cached` is empty: an answer that is never asked for is not drawn.
Asked(cached, S) == IF cached = None THEN Opt(S) ELSE {None}

Answers(sl) ==
    {ans \in [DOMAIN sl -> Opt(LookupVals)] :
        \A n \in DOMAIN sl : ans[n] \in Asked(sl[n], LookupVals)}

\* The macro runs on the derive input.
Generate ==
    /\ pc = "source"
    /\ gen' = Some(Process(desc))
    /\ pc' = "generated"
    /\ UNCHANGED <<desc, class, slots, mem, writes, calls, last, total, lastOk,
                   resolved>>
    /\ UNCHANGED ptrVars
    /\ UNCHANGED viewVars

TheGen == Unwrap(gen)

\* #struct_name::bind(), lines 490-497
Bind ==
    /\ pc = "generated"
    /\ TheGen.ok
    /\ pc' = "bound"
    /\ class' = None
    /\ slots' = [n \in 1..Len(desc.fields) |-> None]
    /\ last' = [op |-> "bind"]
    /\ UNCHANGED <<desc, gen, mem, writes, calls, total, lastOk, resolved>>
    /\ UNCHANGED ptrVars
    /\ UNCHANGED viewVars

\* A class() that keeps no eye on the slot read() fills: it asks the
\* capability whenever it is called.
ClassImpl_OwnLookup(cls, clsAns) ==
    IF clsAns = None THEN [ok |-> FALSE, class |-> cls, lookups |-> 1]
    ELSE [ok |-> TRUE, class |-> clsAns, lookups |-> 1]

\* The body of class(&mut self, game), lines 473-481: the same match on
\* self.class as in read.
ClassImpl(cls, clsAns) == ResolveClass(cls, clsAns)

\* class(&mut self, game), lines 469-483
Class ==
    /\ pc = "bound"
    /\ calls < MaxCalls
    /\ \E clsAns \in Asked(class, Handles) :
       \E c \in {ClassImpl(class, clsAns)} :
         /\ class' = c.class
         /\ last' = [op |-> "class", ret |-> IF c.ok THEN "some" ELSE "none",
                     value |-> c.class, instance |-> 0,
                     class_lookups |-> c.lookups, class_ans |-> clsAns,
                     looked |-> <<>>, reads |-> <<>>,
                     pre_class |-> class, pre_slots |-> slots,
                     pre_resolved |-> resolved, writes |-> writes,
                     prev |-> lastOk]
         /\ total' = [total EXCEPT !.class = @ + c.lookups]
    /\ calls' = calls + 1
    /\ UNCHANGED <<desc, gen, pc, slots, mem, writes, lastOk, resolved>>
    /\ UNCHANGED ptrVars
    /\ UNCHANGED viewVars

\* read(&mut self, game, instance), lines 428-458
Read ==
    /\ pc = "bound"
    /\ TheGen.has_read
    /\ calls < MaxCalls
    /\ \E instance \in (IF TheGen.instance_param THEN Addr ELSE {0}),
          clsAns \in Asked(class, Handles),
          ans \in Answers(slots) :
       \E r \in {ReadImpl(TheGen.fields, class, slots, mem, instance, clsAns, ans)} :
         /\ class' = r.class
         /\ slots' = r.slots
         /\ pc' = IF r.ret = "panic" THEN "panicked" ELSE pc
         /\ last' = [op |-> "read", ret |-> r.ret, value |-> r.value,
                     instance |-> instance,
                     class_lookups |-> r.class_lookups, class_ans |-> clsAns,
                     looked |-> r.looked, reads |-> r.reads,
                     pre_class |-> class, pre_slots |-> slots,
                     pre_resolved |-> resolved, writes |-> writes,
                     prev |-> lastOk]
         /\ total' = [class |-> total.class + r.class_lookups,
                      static |-> total.static + CountOf(r.looked, "get_static_field"),
                      field |-> total.field + CountOf(r.looked, "get_field"),
                      reads |-> total.reads + 1]
         /\ lastOk' = IF r.ret = "some"
                      THEN Some([value |-> r.value, instance |-> instance,
                                 writes |-> writes])
                      ELSE lastOk
         /\ resolved' = (resolved \/ r.resolved)
    /\ calls' = calls + 1
    /\ UNCHANGED <<desc, gen, mem, writes>>
    /\ UNCHANGED ptrVars
    /\ UNCHANGED viewVars

\* The game clears a cell of its memory (a reference set to null, a counter
\* reset) or unmaps it, after the binding has read a value from it.
MemWrite ==
    /\ pc = "bound"
    /\ lastOk # None
    /\ writes < MaxWrites
    /\ \E a \in Addr, v \in {None, Some(0)} :
         /\ v # mem[a]
         /\ mem' = [mem EXCEPT ![a] = v]
    /\ writes' = writes + 1
    /\ UNCHANGED <<desc, gen, pc, class, slots, calls, last, total, lastOk, resolved>>
    /\ UNCHANGED ptrVars
    /\ UNCHANGED viewVars

(***************************************************************************)
(* Initial states.                                                         *)
(***************************************************************************)
\* The game's memory when the binding is created: address 0 is not mapped,
\* cell a holds a + 1, the last cell holds 0.
Fixture ==
    [a \in Addr |-> IF a = 0 THEN None ELSE Some((a + 1) % (MaxAddr + 1))]

BindingIdle ==
    /\ pc = "source"
    /\ gen = None
    /\ class = None
    /\ slots = <<>>
    /\ mem = Fixture
    /\ writes = 0
    /\ calls = 0
    /\ last = NoCall
    /\ total = [class |-> 0, static |-> 0, field |-> 0, reads |-> 0]
    /\ lastOk = None
    /\ resolved = FALSE

PointerIdle ==
    /\ heap = <<>>
    /\ ptr = 0
    /\ pout = NoCall

ViewIdle ==
    /\ tsize = 0
    /\ view = None
    /\ iter = None
    /\ yielded = <<>>
    /\ issued = <<>>
    /\ vout = NoCall

(***************************************************************************)
(* Pointer<T>, src/src/lib.rs lines 52-92. The MemReader reads the words   *)
(* of `heap`; every operation reports the reads it issued and the calls it *)
(* made to the Binding it was given.                                       *)
(***************************************************************************)
ARRAY_SIZE == 24   \* Array::SIZE = 0x18

PtrAddrs == {64 * k : k \in 0..MaxPtr}
HeapCells == PtrAddrs \cup {a + ARRAY_SIZE : a \in PtrAddrs}
Words == 0..MaxWord

\* MemReader::read(addr), line 12
ReaderRead(h, addr) == IF addr \in DOMAIN h THEN h[addr] ELSE None

Out(op, ret, reads, bcalls) ==
    [op |-> op, ret |-> ret, reads |-> reads, binding_calls |-> bcalls]

\* <Array<T> as Resolve>::resolve(reader, addr), lines 157-166
ArrayResolve(h, addr) ==
    LET size == ReaderRead(h, addr + ARRAY_SIZE) IN
    [ret |-> IF size = None THEN None
             ELSE Some([addr |-> addr, size |-> Unwrap(size)]),
     reads |-> <<addr + ARRAY_SIZE>>]

\* Pointer::resolve, lines 53-59, for T = Array<_>
PointerResolve(h, address) ==
    IF address = 0 THEN Out("resolve", None, <<>>, <<>>)
    ELSE LET r == ArrayResolve(h, address) IN Out("resolve", r.ret, r.reads, <<>>)

\* Pointer::read, lines 63-69
PointerRead(h, address) ==
    IF address = 0 THEN Out("read", None, <<>>, <<>>)
    ELSE Out("read", ReaderRead(h, address), <<address>>, <<>>)

\* Pointer::resolve_as_with, lines 77-83; b is what binding.read answers
PointerResolveAsWith(address, b) ==
    IF address = 0 THEN Out("resolve_as_with", None, <<>>, <<>>)
    ELSE Out("resolve_as_with", b, <<>>, <<address>>)

\* Pointer::resolve_with, lines 73-75
PointerResolveWith(address, b) ==
    [PointerResolveAsWith(address, b) EXCEPT !.op = "resolve_with"]

\* Pointer::deref, lines 85-87
PointerDeref(h, address) ==
    Out("deref", ReaderRead(h, address), <<address>>, <<>>)

PtrResolve ==
    /\ pout' = PointerResolve(heap, ptr)
    /\ UNCHANGED <<heap, ptr>>
    /\ UNCHANGED genVars
    /\ UNCHANGED bindVars
    /\ UNCHANGED viewVars

PtrRead ==
    /\ pout' = PointerRead(heap, ptr)
    /\ UNCHANGED <<heap, ptr>>
    /\ UNCHANGED genVars
    /\ UNCHANGED bindVars
    /\ UNCHANGED viewVars

PtrResolveWith ==
    /\ \E b \in Opt(Words) : pout' = PointerResolveWith(ptr, b)
    /\ UNCHANGED <<heap, ptr>>
    /\ UNCHANGED genVars
    /\ UNCHANGED bindVars
    /\ UNCHANGED viewVars

PtrResolveAsWith ==
    /\ \E b \in Opt(Words) : pout' = PointerResolveAsWith(ptr, b)
    /\ UNCHANGED <<heap, ptr>>
    /\ UNCHANGED genVars
    /\ UNCHANGED bindVars
    /\ UNCHANGED viewVars

PtrDeref ==
    /\ pout' = PointerDeref(heap, ptr)
    /\ UNCHANGED <<heap, ptr>>
    /\ UNCHANGED genVars
    /\ UNCHANGED bindVars
    /\ UNCHANGED viewVars

NoInput == [shape |-> "named", rename |-> "none", fields |-> <<>>]

InitPointer ==
    /\ desc = NoInput
    /\ BindingIdle
    /\ heap \in [HeapCells -> Opt(Words)]
    /\ ptr \in PtrAddrs
    /\ pout = NoCall
    /\ ViewIdle

NextPointer == PtrResolve \/ PtrRead \/ PtrResolveWith \/ PtrResolveAsWith \/ PtrDeref

SpecPointer == InitPointer /\ [][NextPointer]_vars

\* Derive inputs of the run-time development: named structs, attributes
\* well-formed or not, no renames (a rename changes only the name looked up).
PlainField == [is_static : BOOLEAN, is_singleton : BOOLEAN, rename : {"none"}]

Init ==
    /\ desc \in [shape : {"named"}, rename : {"none"},
                 fields : SeqsUpTo(PlainField, MaxFields)]
    /\ BindingIdle
    /\ PointerIdle
    /\ ViewIdle

Next == Generate \/ Bind \/ Class \/ Read

Spec == Init /\ [][Next]_vars

\* The same, with a game that changes its memory between the calls.
NextMem == Generate \/ Bind \/ Class \/ Read \/ MemWrite

SpecMem == Init /\ [][NextMem]_vars

\* The macro alone, over every derive input.
InitGen ==
    /\ desc \in Inputs
    /\ BindingIdle
    /\ PointerIdle
    /\ ViewIdle

NextGen == Generate

SpecGen == InitGen /\ [][NextGen]_vars


(***************************************************************************)
(* Array<T>, src/src/lib.rs lines 94-193. The view is resolved through the *)
(* Pointer at `ptr`; reader.read::<T>(addr) answers the word of `heap` at  *)
(* addr. An operation reports the reads it issued in vout.reads.           *)
(***************************************************************************)
ARRAY_DATA == 32   \* Array::DATA = 0x20

ViewOut(op, ret, reads, index) ==
    [op |-> op, ret |-> ret, reads |-> reads, index |-> index]

\* Array::size, lines 126-128
ArraySize(arr) == arr.size

\* An iterator whose end is start + size: it counts items where the
\* addresses count bytes.
ArrayIterNew_ItemEnd(arr, sz) ==
    LET start == arr.addr + ARRAY_DATA IN
    [pos |-> start, end |-> start + arr.size]

\* Array::iter, lines 132-142
ArrayIterNew(arr, sz) ==
    LET start == arr.addr + ARRAY_DATA IN
    [pos |-> start, end |-> start + sz * arr.size]

\* An iterator that steps over the element it failed to read.
ArrayIterNext_SkipFailed(h, it, sz) ==
    IF it.pos >= it.end THEN [item |-> None, it |-> it, reads |-> <<>>]
    ELSE [item |-> ReaderRead(h, it.pos), it |-> [it EXCEPT !.pos = it.pos + sz],
          reads |-> <<it.pos>>]

\* ArrayIter::next, lines 178-187
ArrayIterNext(h, it, sz) ==
    IF it.pos >= it.end THEN [item |-> None, it |-> it, reads |-> <<>>]
    ELSE LET item == ReaderRead(h, it.pos) IN
         IF item = None THEN [item |-> None, it |-> it, reads |-> <<it.pos>>]
         ELSE [item |-> item, it |-> [it EXCEPT !.pos = it.pos + sz],
               reads |-> <<it.pos>>]

\* ArrayIter::size_hint, lines 189-192: end.saturating_sub(pos), as both
\* bounds
ArrayIterSizeHint(it) ==
    LET remaining == IF it.end > it.pos THEN it.end - it.pos ELSE 0 IN
    [lower |-> remaining, upper |-> Some(remaining)]

\* Array::get, lines 144-147
ArrayGet(h, arr, sz, index) ==
    LET offset == arr.addr + ARRAY_DATA + index * sz IN
    [ret |-> ReaderRead(h, offset), reads |-> <<offset>>]

\* Array::as_slice, lines 149-154: the slice starts at data and has len items
ArrayAsSlice(h, arr) ==
    LET len == ReaderRead(h, arr.addr + ARRAY_SIZE) IN
    [ret |-> IF len = None THEN None
             ELSE Some([data |-> arr.addr + ARRAY_DATA, len |-> Unwrap(len)]),
     reads |-> <<arr.addr + ARRAY_SIZE>>]

\* The item an iterator hands out, with the address it was read at.
Item(r) == [at |-> r.reads[Len(r.reads)], val |-> Unwrap(r.item)]

\* Pointer<Array<T>>::resolve(reader)
ArrResolve ==
    /\ \E r \in {PointerResolve(heap, ptr)} :
         /\ view' = r.ret
         /\ vout' = ViewOut("resolve", r.ret, r.reads, 0)
    /\ UNCHANGED <<tsize, iter, yielded, issued, heap, ptr, pout>>
    /\ UNCHANGED genVars
    /\ UNCHANGED bindVars

ArrSize ==
    /\ view # None
    /\ vout' = ViewOut("size", Some(ArraySize(Unwrap(view))), <<>>, 0)
    /\ UNCHANGED <<tsize, view, iter, yielded, issued, heap, ptr, pout>>
    /\ UNCHANGED genVars
    /\ UNCHANGED bindVars

ArrIter ==
    /\ view # None
    /\ iter' = Some(ArrayIterNew(Unwrap(view), tsize))
    /\ yielded' = <<>>
    /\ issued' = <<>>
    /\ vout' = ViewOut("iter", None, <<>>, 0)
    /\ UNCHANGED <<tsize, view, heap, ptr, pout>>
    /\ UNCHANGED genVars
    /\ UNCHANGED bindVars

ArrNext ==
    /\ iter # None
    /\ Len(issued) < MaxReads
    /\ \E r \in {ArrayIterNext(heap, Unwrap(iter), tsize)} :
         /\ iter' = Some(r.it)
         /\ issued' = issued \o r.reads
         /\ yielded' = IF r.item = None THEN yielded ELSE Append(yielded, Item(r))
         /\ vout' = ViewOut("next", r.item, r.reads, 0)
    /\ UNCHANGED <<tsize, view, heap, ptr, pout>>
    /\ UNCHANGED genVars
    /\ UNCHANGED bindVars

ArrSizeHint ==
    /\ iter # None
    /\ vout' = ViewOut("size_hint", Some(ArrayIterSizeHint(Unwrap(iter))), <<>>, 0)
    /\ UNCHANGED <<tsize, view, iter, yielded, issued, heap, ptr, pout>>
    /\ UNCHANGED genVars
    /\ UNCHANGED bindVars

ArrGet ==
    /\ view # None
    /\ \E index \in 0..MaxLen :
         \E r \in {ArrayGet(heap, Unwrap(view), tsize, index)} :
            vout' = ViewOut("get", r.ret, r.reads, index)
    /\ UNCHANGED <<tsize, view, iter, yielded, issued, heap, ptr, pout>>
    /\ UNCHANGED genVars
    /\ UNCHANGED bindVars

ArrAsSlice ==
    /\ view # None
    /\ \E r \in {ArrayAsSlice(heap, Unwrap(view))} :
         vout' = ViewOut("as_slice", r.ret, r.reads, 0)
    /\ UNCHANGED <<tsize, view, iter, yielded, issued, heap, ptr, pout>>
    /\ UNCHANGED genVars
    /\ UNCHANGED bindVars

\* The target grows, shrinks or frees the array: the length in its header
\* changes after the view was resolved.
HeaderWrite ==
    /\ view # None
    /\ writes < MaxWrites
    /\ \E v \in Opt(0..MaxLen) :
         /\ v # heap[ptr + ARRAY_SIZE]
         /\ heap' = [heap EXCEPT ![ptr + ARRAY_SIZE] = v]
    /\ writes' = writes + 1
    /\ UNCHANGED <<desc, gen, pc, class, slots, mem, calls, last, total, lastOk,
                   resolved>>
    /\ UNCHANGED <<ptr, pout>>
    /\ UNCHANGED viewVars

\* The elements of an array at a with elements of sz bytes: MaxLen of them,
\* and the slot after the last.
ElemCells(a, sz) == {a + ARRAY_DATA + k * sz : k \in 0..MaxLen}

ArrayHeaps(a, sz) ==
    {h \in [{a + ARRAY_SIZE} \cup ElemCells(a, sz) -> Opt(0..MaxLen) \cup Opt(Words)] :
        /\ h[a + ARRAY_SIZE] \in Opt(0..MaxLen)
        /\ \A c \in ElemCells(a, sz) : h[c] \in Opt(Words)}

InitArray ==
    /\ desc = NoInput
    /\ BindingIdle
    /\ ptr \in PtrAddrs \ {0}
    /\ pout = NoCall
    /\ tsize \in 1..MaxTSize
    /\ heap \in ArrayHeaps(ptr, tsize)
    /\ view = None
    /\ iter = None
    /\ yielded = <<>>
    /\ issued = <<>>
    /\ vout = NoCall

NextArray ==
    ArrResolve \/ ArrSize \/ ArrIter \/ ArrNext \/ ArrSizeHint \/ ArrGet \/ ArrAsSlice

SpecArray == InitArray /\ [][NextArray]_vars


(***************************************************************************)
(* List<T>, src/src/lib.rs lines 246-306: a logical size and a pointer to  *)
(* the backing Array, whose header holds the capacity.                     *)
(***************************************************************************)
LIST_ITEMS == 16   \* List::ITEMS = 0x10
LIST_SIZE == 24    \* List::SIZE = 0x18

\* <List<T> as Resolve>::resolve, lines 299-306
ListResolve(h, addr) ==
    LET size == ReaderRead(h, addr + LIST_SIZE)
        items == ReaderRead(h, addr + LIST_ITEMS)
    IN  IF size = None THEN [ret |-> None, reads |-> <<addr + LIST_SIZE>>]
        ELSE IF items = None
        THEN [ret |-> None, reads |-> <<addr + LIST_SIZE, addr + LIST_ITEMS>>]
        ELSE LET arr == ArrayResolve(h, Unwrap(items)) IN
             [ret |-> IF arr.ret = None THEN None
                      ELSE Some([addr |-> addr, size |-> Unwrap(size),
                                 items |-> Unwrap(arr.ret)]),
              reads |-> <<addr + LIST_SIZE, addr + LIST_ITEMS>> \o arr.reads]

\* An iterator that takes as many items as the backing array has room for.
ListIterNew_Capacity(list, sz) ==
    LET inner == ArrayIterNew(list.items, sz) IN
    [pos |-> inner.pos, end |-> inner.end, n |-> list.items.size]

\* List::iter, lines 284-286: the iterator of the backing array under take(size)
ListIterNew(list, sz) ==
    LET inner == ArrayIterNew(list.items, sz) IN
    [pos |-> inner.pos, end |-> inner.end, n |-> list.size]

\* Take::next over ArrayIter::next
ListIterNext(h, it, sz) ==
    IF it.n = 0 THEN [item |-> None, it |-> it, reads |-> <<>>]
    ELSE LET r == ArrayIterNext(h, [pos |-> it.pos, end |-> it.end], sz) IN
         [item |-> r.item,
          it |-> [pos |-> r.it.pos, end |-> r.it.end, n |-> it.n - 1],
          reads |-> r.reads]

\* List::get, lines 288-290
ListGet(h, list, sz, index) == ArrayGet(h, list.items, sz, index)

\* List::as_slice, lines 292-296: &inner[..size] panics when size > inner.len()
ListAsSlice(h, list) ==
    LET inner == ArrayAsSlice(h, list.items) IN
    IF inner.ret = None THEN [ret |-> None, reads |-> inner.reads]
    ELSE [ret |-> Some([data |-> Unwrap(inner.ret).data, len |-> list.size,
                        panic |-> list.size > Unwrap(inner.ret).len]),
          reads |-> inner.reads]

LstResolve ==
    /\ \E r \in {ListResolve(heap, ptr)} :
         /\ view' = r.ret
         /\ vout' = ViewOut("resolve", r.ret, r.reads, 0)
    /\ UNCHANGED <<tsize, iter, yielded, issued, heap, ptr, pout>>
    /\ UNCHANGED genVars
    /\ UNCHANGED bindVars

LstIter ==
    /\ view # None
    /\ iter' = Some(ListIterNew(Unwrap(view), tsize))
    /\ yielded' = <<>>
    /\ vout' = ViewOut("iter", None, <<>>, 0)
    /\ UNCHANGED <<tsize, view, issued, heap, ptr, pout>>
    /\ UNCHANGED genVars
    /\ UNCHANGED bindVars

LstNext ==
    /\ iter # None
    /\ \E r \in {ListIterNext(heap, Unwrap(iter), tsize)} :
         /\ iter' = Some(r.it)
         /\ yielded' = IF r.item = None THEN yielded ELSE Append(yielded, Item(r))
         /\ vout' = ViewOut("next", r.item, r.reads, 0)
    /\ UNCHANGED <<tsize, view, issued, heap, ptr, pout>>
    /\ UNCHANGED genVars
    /\ UNCHANGED bindVars

LstGet ==
    /\ view # None
    /\ \E index \in 0..MaxLen :
         \E r \in {ListGet(heap, Unwrap(view), tsize, index)} :
            vout' = ViewOut("get", r.ret, r.reads, index)
    /\ UNCHANGED <<tsize, view, iter, yielded, issued, heap, ptr, pout>>
    /\ UNCHANGED genVars
    /\ UNCHANGED bindVars

LstAsSlice ==
    /\ view # None
    /\ \E r \in {ListAsSlice(heap, Unwrap(view))} :
         vout' = ViewOut("as_slice", r.ret, r.reads, 0)
    /\ UNCHANGED <<tsize, view, iter, yielded, issued, heap, ptr, pout>>
    /\ UNCHANGED genVars
    /\ UNCHANGED bindVars

\* The backing array of the object at a lies at BackingAt(a); the pointer to
\* it may also be null.
BackingAt(a) == a + 64
BackingPtrs(a) == {0, BackingAt(a)}

\* Element k of a backing array holds the word k (mod MaxWord + 1), except for
\* the element `bad`, which is unreadable; bad > MaxLen names no element.
ElemIndex(b, sz, c) == (c - (b + ARRAY_DATA)) \div sz
BackingCells(b, sz) == {b + ARRAY_SIZE} \cup ElemCells(b, sz)
BackingHeap(b, sz, cap, bad, c) ==
    IF c = b + ARRAY_SIZE THEN cap
    ELSE IF ElemIndex(b, sz, c) = bad THEN None
    ELSE Some(ElemIndex(b, sz, c) % (MaxWord + 1))

\* What the reader answers at the place of a header behind a null pointer:
\* the cell 0 + 0x18 is part of the memory of a list whose pointer is null.
NullHeader(items) == IF items = Some(0) THEN Opt(0..MaxLen) ELSE {None}

ListHeaps(a, sz) ==
    UNION {
      {[c \in {ARRAY_SIZE, a + LIST_ITEMS, a + LIST_SIZE}
                 \cup BackingCells(BackingAt(a), sz) |->
          IF c = ARRAY_SIZE THEN nh
          ELSE IF c = a + LIST_SIZE THEN n
          ELSE IF c = a + LIST_ITEMS THEN items
          ELSE BackingHeap(BackingAt(a), sz, cap, bad, c)] : nh \in NullHeader(items)} :
      n \in Opt(0..MaxLen), items \in Opt(BackingPtrs(a)),
      cap \in Opt(0..MaxLen), bad \in 0..(MaxLen + 1)}

InitList ==
    /\ desc = NoInput
    /\ BindingIdle
    /\ ptr \in PtrAddrs \ {0}
    /\ pout = NoCall
    /\ tsize \in 1..MaxTSize
    /\ heap \in ListHeaps(ptr, tsize)
    /\ view = None
    /\ iter = None
    /\ yielded = <<>>
    /\ issued = <<>>
    /\ vout = NoCall

NextList == LstResolve \/ LstIter \/ LstNext \/ LstGet \/ LstAsSlice

SpecList == InitList /\ [][NextList]_vars

\* An array in a target that rewrites the header of the array while the view
\* is in use.
InitArrayMem ==
    /\ desc = NoInput
    /\ BindingIdle
    /\ ptr \in PtrAddrs \ {0}
    /\ pout = NoCall
    /\ tsize \in 1..MaxTSize
    /\ heap \in {[c \in BackingCells(ptr, tsize) |-> BackingHeap(ptr, tsize, cap, bad, c)] :
                   cap \in Opt(0..MaxLen), bad \in 0..(MaxLen + 1)}
    /\ view = None
    /\ iter = None
    /\ yielded = <<>>
    /\ issued = <<>>
    /\ vout = NoCall

NextArrayMem == NextArray \/ HeaderWrite

SpecArrayMem == InitArrayMem /\ [][NextArrayMem]_vars

(***************************************************************************)
(* Map<K, V> and Set<T>, src/src/lib.rs lines 308-414: a size and a        *)
(* pointer to the bucket array, an Array<Entry<K, V>>. A Set is a Map with *)
(* unit values; `kind` tells the two views apart.                          *)
(***************************************************************************)
MAP_ENTRIES == 24  \* Map::ENTRIES = 0x18
MAP_SIZE == 32     \* Map::SIZE = 0x20

\* A resolution that issues the reads of both fields before it looks at
\* either answer.
MapResolve_Eager(h, addr) ==
    LET size == ReaderRead(h, addr + MAP_SIZE)
        entries == ReaderRead(h, addr + MAP_ENTRIES)
    IN  IF size = None \/ entries = None
        THEN [ret |-> None, reads |-> <<addr + MAP_SIZE, addr + MAP_ENTRIES>>]
        ELSE LET arr == ArrayResolve(h, Unwrap(entries)) IN
             [ret |-> IF arr.ret = None THEN None
                      ELSE Some([kind |-> "map", addr |-> addr, size |-> Unwrap(size),
                                 entries |-> Unwrap(arr.ret)]),
              reads |-> <<addr + MAP_SIZE, addr + MAP_ENTRIES>> \o arr.reads]

\* <Map<K, V> as Resolve>::resolve, lines 355-366
MapResolve(h, addr) ==
    LET size == ReaderRead(h, addr + MAP_SIZE)
        entries == ReaderRead(h, addr + MAP_ENTRIES)
    IN  IF size = None THEN [ret |-> None, reads |-> <<addr + MAP_SIZE>>]
        ELSE IF entries = None
        THEN [ret |-> None, reads |-> <<addr + MAP_SIZE, addr + MAP_ENTRIES>>]
        ELSE LET arr == ArrayResolve(h, Unwrap(entries)) IN
             [ret |-> IF arr.ret = None THEN None
                      ELSE Some([kind |-> "map", addr |-> addr, size |-> Unwrap(size),
                                 entries |-> Unwrap(arr.ret)]),
              reads |-> <<addr + MAP_SIZE, addr + MAP_ENTRIES>> \o arr.reads]

\* <Set<T> as Resolve>::resolve, lines 400-405
SetResolve(h, addr) ==
    LET map == MapResolve(h, addr) IN
    [ret |-> IF map.ret = None THEN None
             ELSE Some([Unwrap(map.ret) EXCEPT !.kind = "set"]),
     reads |-> map.reads]

\* A filter that keeps only the entries with a hash.
Live_HashOnly(o) == o.hash # 0

\* The predicate of the filter, line 349: a tombstone has neither a hash
\* nor a next.
Live(o) == o.hash # 0 \/ o.next # 0

\* Map::iter, lines 346-352
MapIterNew(map, sz) ==
    LET inner == ArrayIterNew(map.entries, sz) IN
    [kind |-> map.kind, pos |-> inner.pos, end |-> inner.end, n |-> map.size]

\* Filter::next over ArrayIter::next: the next entry that passes the
\* predicate, or None when the inner iterator answers None.
RECURSIVE FilterNext(_, _, _, _)
FilterNext(h, it, sz, reads) ==
    LET r == ArrayIterNext(h, it, sz) IN
    IF r.item = None THEN [item |-> None, it |-> r.it, reads |-> reads \o r.reads]
    ELSE IF Live(Unwrap(r.item))
    THEN [item |-> r.item, it |-> r.it, reads |-> reads \o r.reads]
    ELSE FilterNext(h, r.it, sz, reads \o r.reads)

\* Take::next over Filter::next, and the map to (key, value)
MapIterNext(h, it, sz) ==
    IF it.n = 0 THEN [item |-> None, it |-> it, reads |-> <<>>]
    ELSE LET r == FilterNext(h, [pos |-> it.pos, end |-> it.end], sz, <<>>) IN
         [item |-> IF r.item = None THEN None
                   ELSE Some([key |-> Unwrap(r.item).key,
                              value |-> Unwrap(r.item).value]),
          it |-> [it EXCEPT !.pos = r.it.pos, !.n = it.n - 1],
          reads |-> r.reads]

\* Set::iter, lines 395-397: map.iter(reader).map(|o| o.0)
SetIterNext(h, it, sz) ==
    LET r == MapIterNext(h, it, sz) IN
    [item |-> IF r.item = None THEN None ELSE Some(Unwrap(r.item).key),
     it |-> r.it, reads |-> r.reads]

MapRes ==
    /\ \E r \in {MapResolve(heap, ptr)} :
         /\ view' = r.ret
         /\ vout' = ViewOut("resolve", r.ret, r.reads, 0)
    /\ UNCHANGED <<tsize, iter, yielded, issued, heap, ptr, pout>>
    /\ UNCHANGED genVars
    /\ UNCHANGED bindVars

SetRes ==
    /\ \E r \in {SetResolve(heap, ptr)} :
         /\ view' = r.ret
         /\ vout' = ViewOut("resolve", r.ret, r.reads, 0)
    /\ UNCHANGED <<tsize, iter, yielded, issued, heap, ptr, pout>>
    /\ UNCHANGED genVars
    /\ UNCHANGED bindVars

\* map.iter(reader) or set.iter(reader), as the view is
MapIter ==
    /\ view # None
    /\ iter' = Some(MapIterNew(Unwrap(view), tsize))
    /\ yielded' = <<>>
    /\ vout' = ViewOut("iter", None, <<>>, 0)
    /\ UNCHANGED <<tsize, view, issued, heap, ptr, pout>>
    /\ UNCHANGED genVars
    /\ UNCHANGED bindVars

MapNext ==
    /\ iter # None
    /\ Unwrap(iter).kind = "map"
    /\ \E r \in {MapIterNext(heap, Unwrap(iter), tsize)} :
         /\ iter' = Some(r.it)
         /\ yielded' = IF r.item = None THEN yielded ELSE Append(yielded, Item(r))
         /\ vout' = ViewOut("next", r.item, r.reads, 0)
    /\ UNCHANGED <<tsize, view, issued, heap, ptr, pout>>
    /\ UNCHANGED genVars
    /\ UNCHANGED bindVars

SetNext ==
    /\ iter # None
    /\ Unwrap(iter).kind = "set"
    /\ \E r \in {SetIterNext(heap, Unwrap(iter), tsize)} :
         /\ iter' = Some(r.it)
         /\ yielded' = IF r.item = None THEN yielded ELSE Append(yielded, Item(r))
         /\ vout' = ViewOut("next", r.item, r.reads, 0)
    /\ UNCHANGED <<tsize, view, issued, heap, ptr, pout>>
    /\ UNCHANGED genVars
    /\ UNCHANGED bindVars

\* Entry k of a bucket array has key k and a value that is no key; its hash
\* and next are 0 or 1 as the bit k of `hashes` and of `nexts` says.
Bit(bits, k) == (bits \div (2 ^ k)) % 2
Buckets == 0..(2 ^ (MaxLen + 1) - 1)
EntryAt(k, hashes, nexts) ==
    [hash |-> Bit(hashes, k), next |-> Bit(nexts, k), key |-> k,
     value |-> k + MaxLen + 1]
BucketHeap(b, sz, cap, bad, hashes, nexts, c) ==
    IF c = b + ARRAY_SIZE THEN cap
    ELSE IF ElemIndex(b, sz, c) = bad THEN None
    ELSE Some(EntryAt(ElemIndex(b, sz, c), hashes, nexts))

\* A map that does not resolve has an empty bucket array.
MapHeaps(a, sz) ==
    {[c \in {a + MAP_ENTRIES, a + MAP_SIZE} \cup BackingCells(BackingAt(a), sz) |->
        IF c = a + MAP_SIZE THEN n
        ELSE IF c = a + MAP_ENTRIES THEN entries
        ELSE BucketHeap(BackingAt(a), sz, cap, bad, hashes, nexts, c)] :
     n \in Opt(0..MaxLen), entries \in Opt(BackingPtrs(a)),
     cap \in Opt(0..MaxLen), bad \in 0..(MaxLen + 1),
     hashes \in Buckets, nexts \in Buckets}

InitMap ==
    /\ desc = NoInput
    /\ BindingIdle
    /\ ptr \in PtrAddrs \ {0}
    /\ pout = NoCall
    /\ tsize = MaxTSize
    /\ heap \in {h \in MapHeaps(ptr, tsize) :
                   MapResolve(h, ptr).ret = None =>
                      \A c \in ElemCells(BackingAt(ptr), tsize) :
                         h[c] = Some(EntryAt(ElemIndex(BackingAt(ptr), tsize, c), 0, 0))}
    /\ view = None
    /\ iter = None
    /\ yielded = <<>>
    /\ issued = <<>>
    /\ vout = NoCall

NextMap == MapRes \/ SetRes \/ MapIter \/ MapNext \/ SetNext

SpecMap == InitMap /\ [][NextMap]_vars

(***************************************************************************)
(* CSString, src/src/lib.rs lines 195-244: a length in UTF-16 code units   *)
(* and the units themselves. A char is its scalar value.                   *)
(***************************************************************************)
CSSTRING_SIZE == 16           \* CSString::SIZE = 0x10
CSSTRING_DATA == 20           \* CSString::DATA = 0x14
U16_SIZE == 2                 \* size_of::<u16>()
REPLACEMENT_CHARACTER == 65533   \* char::REPLACEMENT_CHARACTER, U+FFFD

\* u16::is_utf16_surrogate: 0xD800..=0xDFFF; a trailing one is >= 0xDC00
IsSurrogate(u) == u >= 55296 /\ u <= 57343
IsTrailing(u) == u >= 56320 /\ u <= 57343

\* <CSString as Resolve>::resolve, lines 240-243
CSStringResolve(h, addr) ==
    LET size == ReaderRead(h, addr + CSSTRING_SIZE) IN
    [ret |-> IF size = None THEN None
             ELSE Some([addr |-> addr, size |-> Unwrap(size)]),
     reads |-> <<addr + CSSTRING_SIZE>>]

\* CSString::chars, lines 209-220: DecodeUtf16 over an ArrayIter of u16
CharsNew(str) ==
    LET start == str.addr + CSSTRING_DATA IN
    [pos |-> start, end |-> start + 2 * str.size, buf |-> None]

\* A decoder that drops the unit it read after a leading surrogate.
DecodeNext_Drop(h, it) ==
    LET inner == [pos |-> it.pos, end |-> it.end]
        first == IF it.buf # None
                 THEN [item |-> it.buf, it |-> inner, reads |-> <<>>]
                 ELSE ArrayIterNext(h, inner, U16_SIZE)
        With(r, item, reads) ==
            [item |-> item,
             it |-> [pos |-> r.it.pos, end |-> r.it.end, buf |-> None],
             reads |-> reads]
    IN  IF first.item = None THEN With(first, None, first.reads)
        ELSE LET u == Unwrap(first.item) IN
             IF ~IsSurrogate(u) THEN With(first, Some([ok |-> TRUE, c |-> u]), first.reads)
             ELSE IF IsTrailing(u)
             THEN With(first, Some([ok |-> FALSE, c |-> u]), first.reads)
             ELSE LET second == ArrayIterNext(h, first.it, U16_SIZE)
                      reads == first.reads \o second.reads
                  IN  IF second.item = None
                      THEN With(second, Some([ok |-> FALSE, c |-> u]), reads)
                      ELSE IF ~IsTrailing(Unwrap(second.item))
                      THEN With(second, Some([ok |-> FALSE, c |-> u]), reads)
                      ELSE With(second,
                                Some([ok |-> TRUE,
                                      c |-> 65536 + (u - 55296) * 1024
                                              + (Unwrap(second.item) - 56320)]),
                                reads)

\* <DecodeUtf16<I> as Iterator>::next: the unit is the buffered one or the
\* next of the inner iterator; a leading surrogate takes one more unit and
\* buffers it when it is no trailing surrogate.
DecodeNext(h, it) ==
    LET inner == [pos |-> it.pos, end |-> it.end]
        first == IF it.buf # None
                 THEN [item |-> it.buf, it |-> inner, reads |-> <<>>]
                 ELSE ArrayIterNext(h, inner, U16_SIZE)
        With(r, item, buf, reads) ==
            [item |-> item,
             it |-> [pos |-> r.it.pos, end |-> r.it.end, buf |-> buf],
             reads |-> reads]
    IN  IF first.item = None THEN With(first, None, None, first.reads)
        ELSE LET u == Unwrap(first.item) IN
             IF ~IsSurrogate(u)
             THEN With(first, Some([ok |-> TRUE, c |-> u]), None, first.reads)
             ELSE IF IsTrailing(u)
             THEN With(first, Some([ok |-> FALSE, c |-> u]), None, first.reads)
             ELSE LET second == ArrayIterNext(h, first.it, U16_SIZE)
                      reads == first.reads \o second.reads
                  IN  IF second.item = None
                      THEN With(second, Some([ok |-> FALSE, c |-> u]), None, reads)
                      ELSE IF ~IsTrailing(Unwrap(second.item))
                      THEN With(second, Some([ok |-> FALSE, c |-> u]),
                                second.item, reads)
                      ELSE With(second,
                                Some([ok |-> TRUE,
                                      c |-> 65536 + (u - 55296) * 1024
                                              + (Unwrap(second.item) - 56320)]),
                                None, reads)

\* The map of line 219: o.unwrap_or(char::REPLACEMENT_CHARACTER)
CharsNext(h, it) ==
    LET r == DecodeNext(h, it) IN
    [item |-> IF r.item = None THEN None
              ELSE IF Unwrap(r.item).ok THEN Some(Unwrap(r.item).c)
              ELSE Some(REPLACEMENT_CHARACTER),
     it |-> r.it, reads |-> r.reads]

StrResolve ==
    /\ \E r \in {CSStringResolve(heap, ptr)} :
         /\ view' = r.ret
         /\ vout' = ViewOut("resolve", r.ret, r.reads, 0)
    /\ UNCHANGED <<tsize, iter, yielded, issued, heap, ptr, pout>>
    /\ UNCHANGED genVars
    /\ UNCHANGED bindVars

StrChars ==
    /\ view # None
    /\ iter' = Some(CharsNew(Unwrap(view)))
    /\ yielded' = <<>>
    /\ vout' = ViewOut("chars", None, <<>>, 0)
    /\ UNCHANGED <<tsize, view, issued, heap, ptr, pout>>
    /\ UNCHANGED genVars
    /\ UNCHANGED bindVars

\* The next char of the iterator; `at` is the address of its first unit.
StrNext ==
    /\ iter # None
    /\ \E r \in {CharsNext(heap, Unwrap(iter))} :
         /\ iter' = Some(r.it)
         /\ yielded' =
              IF r.item = None THEN yielded
              ELSE Append(yielded,
                          [at |-> IF Unwrap(iter).buf # None
                                  THEN Unwrap(iter).pos - U16_SIZE
                                  ELSE Unwrap(iter).pos,
                           val |-> Unwrap(r.item)])
         /\ vout' = ViewOut("next", r.item, r.reads, 0)
    /\ UNCHANGED <<tsize, view, issued, heap, ptr, pout>>
    /\ UNCHANGED genVars
    /\ UNCHANGED bindVars

\* The code units of the strings: 'A', a leading surrogate, a trailing
\* surrogate and a unit above the surrogates.
Units == {65, 55357, 56832, 65281}
UnitCells(a) == {a + CSSTRING_DATA + U16_SIZE * k : k \in 0..MaxLen}

StringHeaps(a) ==
    {h \in [{a + CSSTRING_SIZE} \cup UnitCells(a) -> Opt(0..MaxLen) \cup Opt(Units)] :
        /\ h[a + CSSTRING_SIZE] \in Opt(0..MaxLen)
        /\ \A c \in UnitCells(a) : h[c] \in Opt(Units)}

InitString ==
    /\ desc = NoInput
    /\ BindingIdle
    /\ ptr \in PtrAddrs \ {0}
    /\ pout = NoCall
    /\ tsize = U16_SIZE
    /\ heap \in StringHeaps(ptr)
    /\ view = None
    /\ iter = None
    /\ yielded = <<>>
    /\ issued = <<>>
    /\ vout = NoCall

NextString == StrResolve \/ StrChars \/ StrNext

SpecString == InitString /\ [][NextString]_vars

(***************************************************************************)
(* Properties.                                                             *)
(***************************************************************************)
IsCall == last.op \in {"class", "read"}
IsRead == last.op = "read"
Declared == 1..Len(desc.fields)
Kind(n) == IF desc.fields[n].is_static THEN "static"
           ELSE IF desc.fields[n].is_singleton THEN "singleton" ELSE "plain"
Singletons == {n \in Declared : desc.fields[n].is_singleton}
Statics == {n \in Declared : desc.fields[n].is_static}
NonStatics == {n \in Declared : ~desc.fields[n].is_static}
Generated == pc # "source"
Accepted == Generated /\ TheGen.ok

\* C1 (as claimed): for a Pointer whose address is 0, each of resolve, read,
\* resolve_with, resolve_as_with and deref returns None, issues no read of
\* the MemReader and makes no call to the binding.
C1_NullEveryForm ==
    (ptr = 0 /\ pout.op # "none") =>
        (pout.ret = None /\ pout.reads = <<>> /\ pout.binding_calls = <<>>)

\* C2: once a read has got past all its lookups, the class and every field
\* stay cached and every later read issues no class, static-field or
\* field-offset lookup; and a read made with the same instance argument as
\* the last read that returned a value, on memory unchanged since then,
\* returns that same value.
C2_NoLookupsSameValue ==
    /\ resolved => (class # None /\ \A n \in Declared : slots[n] # None)
    /\ (IsRead /\ last.pre_resolved) =>
          (last.class_lookups = 0 /\ last.looked = <<>>)
    /\ (IsRead /\ last.prev # None /\ Unwrap(last.prev).writes = last.writes
          /\ Unwrap(last.prev).instance = last.instance) =>
          (last.ret = "some" /\ last.value = Unwrap(last.prev).value)

\* C2 (as claimed): the same, whatever the instance argument of the later read.
C2_SameValueAnyInstance ==
    (IsRead /\ last.prev # None /\ Unwrap(last.prev).writes = last.writes) =>
        (last.ret = "some" /\ last.value = Unwrap(last.prev).value)

C2_Witness ==
    /\ IsRead /\ last.pre_resolved /\ last.ret = "some"
    /\ last.prev # None /\ Unwrap(last.prev).writes = last.writes
    /\ Unwrap(last.prev).instance = last.instance
    /\ Singletons # {} /\ Len(desc.fields) = 2

\* Two reads, both returning a value, are all the calls made on a binding of
\* a class with one singleton field and one plain field.
TwoGoodReads ==
    /\ Accepted /\ Len(desc.fields) = 2
    /\ Cardinality(Singletons) = 1 /\ Statics = {}
    /\ calls = 2 /\ total.reads = 2
    /\ IsRead /\ last.ret = "some" /\ last.prev # None

\* C3: across two consecutive reads that both succeed, a binding of a class
\* with one singleton field and one plain field issues exactly one class
\* lookup, exactly one static-field lookup (the singleton) and exactly one
\* field-offset lookup (the plain field): two field lookups in all.
C3_LookupsOnceEach ==
    TwoGoodReads => (total.class = 1 /\ total.static = 1 /\ total.field = 1)

\* C3 (as claimed): ... exactly one class lookup and exactly one field lookup.
C3_OneFieldLookup ==
    TwoGoodReads => (total.class = 1 /\ total.static + total.field = 1)

C3_Witness == TwoGoodReads

ClassLookupFailed == IsCall /\ last.class_lookups > 0 /\ last.class_ans = None

\* C4: when the class lookup fails in read or class, the call returns None,
\* looks up no field, reads no data, has looked the class up once, and
\* leaves the class cache and every field cache as they were (empty); a
\* call that starts with an empty class cache looks the class up.
C4_ClassFailure ==
    /\ ClassLookupFailed =>
          /\ last.ret = "none"
          /\ last.looked = <<>> /\ last.reads = <<>>
          /\ last.class_lookups = 1
          /\ class = None /\ last.pre_class = None
          /\ slots = last.pre_slots
          /\ \A n \in Declared : slots[n] = None
    /\ (IsCall /\ last.pre_class = None) => last.class_lookups = 1

C4_Witness ==
    calls = 2 /\ total.class = 2 /\ ClassLookupFailed /\ IsRead

\* The last lookup of the call failed after at least one other succeeded.
LaterFieldFailed ==
    /\ IsRead /\ Len(last.looked) >= 2
    /\ last.looked[Len(last.looked)].ans = None

\* The generated fields whose slot was empty when the call started.
Uncached == {k \in 1..Len(TheGen.fields) : last.pre_slots[TheGen.fields[k].name] = None}

\* C5: when field A's lookup succeeds and a later field B's lookup fails,
\* read returns None with the class and A cached and B's slot empty; a read
\* never looks up the class or a field that is cached, and with the class
\* cached it does look up the first field whose slot is empty.
C5_IndependentFieldCaches ==
    /\ LaterFieldFailed =>
          /\ last.ret = "none" /\ last.reads = <<>>
          /\ class # None
          /\ \A k \in 1..(Len(last.looked) - 1) :
                slots[last.looked[k].name] = last.looked[k].ans
          /\ slots[last.looked[Len(last.looked)].name] = None
    /\ IsRead =>
          /\ last.pre_class # None => last.class_lookups = 0
          /\ \A k \in 1..Len(last.looked) : last.pre_slots[last.looked[k].name] = None
          /\ (last.pre_class # None /\ Uncached # {}) =>
                /\ last.looked # <<>>
                /\ last.looked[1].name =
                      TheGen.fields[CHOOSE k \in Uncached :
                                        \A j \in Uncached : k <= j].name

C5_Witness ==
    /\ IsRead /\ calls = 2 /\ total.reads = 2
    /\ last.pre_class # None /\ last.class_lookups = 0
    /\ \E a, b \in Declared :
          /\ last.pre_slots[a] # None /\ last.pre_slots[b] = None
          /\ Len(last.looked) = 1 /\ last.looked[1].name = b

\* C6: read returns a value iff the class, every field's address or offset
\* and every field's data were obtained in that call; the value then holds
\* what was read for each declared field; a failed data read gives None.
C6_AllOrNothing ==
    IsRead =>
        /\ last.ret = "some" <=>
              /\ class # None
              /\ \A n \in Declared : slots[n] # None
              /\ Len(last.reads) = Len(desc.fields)
              /\ \A k \in 1..Len(last.reads) : last.reads[k].val # None
        /\ last.ret = "some" =>
              /\ DOMAIN last.value = Declared
              /\ \A k \in 1..Len(last.reads) :
                    last.value[last.reads[k].name] = Unwrap(last.reads[k].val)
        /\ (\E k \in 1..Len(last.reads) : last.reads[k].val = None) =>
              (last.ret = "none" /\ last.value = <<>>)

C6_Witness ==
    /\ IsRead /\ last.ret = "none" /\ Len(last.reads) = 2
    /\ last.reads[1].val # None /\ last.reads[2].val = None

ZeroOffsetAnswered ==
    /\ IsRead /\ last.looked # <<>>
    /\ last.looked[Len(last.looked)].lookup = "get_field"
    /\ last.looked[Len(last.looked)].ans = Some(0)

\* C7: when get_field answers offset 0 for a plain field, read panics: it
\* returns nothing, issues no data read, and the slot of the field stays
\* empty; no plain field's slot ever holds 0.
C7_ZeroOffsetPanics ==
    /\ ZeroOffsetAnswered =>
          /\ last.ret = "panic" /\ pc = "panicked"
          /\ last.reads = <<>>
          /\ slots[last.looked[Len(last.looked)].name] = None
    /\ pc = "panicked" => ZeroOffsetAnswered
    /\ pc \in {"bound", "panicked"} =>
          \A n \in Declared : Kind(n) = "plain" => slots[n] # Some(0)

C7_Witness == ZeroOffsetAnswered /\ Len(last.looked) = 2

\* The data read of declared field n in the last call.
ReadOf(n) == CHOOSE k \in 1..Len(last.reads) : last.reads[k].name = n

\* C8: read reads a static or singleton field at its resolved address, a
\* plain field of a class without singleton at instance + offset, and a
\* plain field of a class with a singleton at v + offset, v being the value
\* read in the same call at the singleton's resolved address, wherever the
\* singleton is declared.
C8_EffectiveAddress ==
    IsRead =>
        \A k \in 1..Len(last.reads) :
            LET n == last.reads[k].name
                at == last.reads[k].addr
            IN  CASE Kind(n) \in {"static", "singleton"} -> at = Unwrap(slots[n])
                  [] Kind(n) = "plain" /\ Singletons = {} ->
                        at = last.instance + Unwrap(slots[n])
                  [] Kind(n) = "plain" /\ Singletons # {} ->
                        \E g \in Singletons :
                            /\ \E j \in 1..Len(last.reads) : last.reads[j].name = g
                            /\ last.reads[ReadOf(g)].addr = Unwrap(slots[g])
                            /\ last.reads[ReadOf(g)].val # None
                            /\ at = Unwrap(last.reads[ReadOf(g)].val) + Unwrap(slots[n])

C8_Witness ==
    /\ IsRead /\ last.ret = "some" /\ Len(desc.fields) = 2
    /\ Kind(1) = "plain" /\ Kind(2) = "singleton"
    /\ last.reads[ReadOf(1)].addr # Unwrap(slots[2]) + Unwrap(slots[1])

RenameMalformed ==
    desc.rename = "bad" \/ \E n \in Declared : desc.fields[n].rename = "bad"

ClaimedRejection ==
    \/ \E n \in Declared : desc.fields[n].is_static /\ desc.fields[n].is_singleton
    \/ Cardinality(Singletons) > 1
    \/ Statics # {} /\ NonStatics # {}

C10_ParameterShape ==
    Accepted =>
        /\ TheGen.has_read <=> Declared # {}
        /\ (TheGen.has_read /\ TheGen.instance_param) <=>
              (NonStatics # {} /\ Singletons = {})
        /\ TheGen.has_read_pointer <=> (TheGen.has_read /\ TheGen.instance_param)

C10_Witness ==
    /\ Accepted /\ Len(desc.fields) = 2
    /\ Kind(1) = "plain" /\ Kind(2) = "singleton"
    /\ TheGen.has_read /\ ~TheGen.instance_param /\ ~TheGen.has_read_pointer

(***************************************************************************)
(* Views.                                                                  *)
(***************************************************************************)
TheView == Unwrap(view)
TheIter == Unwrap(iter)
IsView(op) == vout.op = op

\* The address of element k of the array of the view, and what is read there.
ElemAddr(k) == TheView.addr + ARRAY_DATA + k * tsize
Elem(k) == ReaderRead(heap, ElemAddr(k))
ElementsReadable == \A k \in 0..(TheView.size - 1) : Elem(k) # None
Exhausted == iter # None /\ TheIter.pos >= TheIter.end

\* C11: for a resolved Array at a with cached size n whose elements are all
\* readable, iter yields exactly n items, the k-th being the value read at
\* a + 0x20 + k * sizeof(T) in increasing k, and get(i) for 0 <= i < n returns
\* the value of the i-th item of iter.
C11_ArrayIterAndGet ==
    (view # None /\ ElementsReadable) =>
        /\ iter # None =>
             /\ Len(yielded) <= TheView.size
             /\ \A k \in 1..Len(yielded) :
                  yielded[k] = [at |-> ElemAddr(k - 1), val |-> Unwrap(Elem(k - 1))]
             /\ (Exhausted \/ (IsView("next") /\ vout.ret = None)) =>
                  Len(yielded) = TheView.size
             /\ Len(yielded) < TheView.size => ~Exhausted
        /\ (IsView("get") /\ vout.index < TheView.size) =>
             /\ vout.ret = Elem(vout.index)
             /\ vout.reads = <<ElemAddr(vout.index)>>
             /\ (iter # None /\ Len(yielded) > vout.index) =>
                  vout.ret = Some(yielded[vout.index + 1].val)

C11_Witness ==
    /\ view # None
    /\ TheView.size >= 2
    /\ tsize >= 2
    /\ ElementsReadable
    /\ Elem(0) # Elem(1)
    /\ Exhausted
    /\ Len(yielded) = TheView.size
    /\ IsView("get")
    /\ vout.index = 1
    /\ vout.ret = Some(yielded[2].val)

\* The backing array of the List of the view.
Backing == TheView.items
BackingElemAddr(k) == Backing.addr + ARRAY_DATA + k * tsize
BackingElem(k) == ReaderRead(heap, BackingElemAddr(k))
BackingIndex(addr) == ElemIndex(Backing.addr, tsize, addr)
ListReadable == \A k \in 0..(TheView.size - 1) : BackingElem(k) # None
TakeDone == iter # None /\ TheIter.n = 0

\* C13: for a List with logical size n and a backing array of capacity
\* c >= n, iter yields exactly the first n elements of the backing array, in
\* order, and never an element at index >= n, even when c > n.
C13_ListIterLogicalSize ==
    (view # None /\ iter # None) =>
        /\ \A k \in 1..Len(yielded) : BackingIndex(yielded[k].at) < TheView.size
        /\ (TheView.size <= Backing.size /\ ListReadable) =>
             /\ Len(yielded) <= TheView.size
             /\ \A k \in 1..Len(yielded) :
                  yielded[k] = [at |-> BackingElemAddr(k - 1),
                                val |-> Unwrap(BackingElem(k - 1))]
             /\ (TakeDone \/ (IsView("next") /\ vout.ret = None)) =>
                  Len(yielded) = TheView.size
             /\ Len(yielded) < TheView.size => ~TakeDone

C13_Witness ==
    /\ view # None
    /\ TheView.size >= 1
    /\ Backing.size > TheView.size
    /\ BackingElem(TheView.size) # None
    /\ ListReadable
    /\ TakeDone
    /\ IsView("next")
    /\ vout.ret = None
    /\ Len(yielded) = TheView.size

\* C14: for a List with logical size n, get(i) with i >= n, iter and as_slice
\* never return or read an element of the backing array at index >= n.
C14_ListClamp ==
    view # None =>
        /\ (IsView("get") /\ vout.index >= TheView.size) =>
             /\ vout.ret = None
             /\ \A k \in 1..Len(vout.reads) :
                  BackingIndex(vout.reads[k]) < TheView.size
        /\ (IsView("next") \/ IsView("iter")) =>
             \A k \in 1..Len(vout.reads) : BackingIndex(vout.reads[k]) < TheView.size
        /\ (IsView("as_slice") /\ vout.ret # None) =>
             Unwrap(vout.ret).len <= TheView.size

\* The bucket array of the Map or Set of the view.
BucketAddr(k) == TheView.entries.addr + ARRAY_DATA + k * tsize
Bucket(k) == Unwrap(ReaderRead(heap, BucketAddr(k)))
BucketsReadable ==
    \A k \in 0..(TheView.entries.size - 1) : ReaderRead(heap, BucketAddr(k)) # None
Tombstone(o) == o.hash = 0 /\ o.next = 0
NonTombstones == {k \in 0..(TheView.entries.size - 1) : ~Tombstone(Bucket(k))}
Min(a, b) == IF a < b THEN a ELSE b
\* The j-th non-tombstone entry in the order of the bucket array, from 1.
NthNonTombstone(j) ==
    CHOOSE k \in NonTombstones : Cardinality({i \in NonTombstones : i < k}) = j - 1
ExpectedPair(j) ==
    LET k == NthNonTombstone(j) IN
    [at |-> BucketAddr(k),
     val |-> IF TheIter.kind = "set" THEN Bucket(k).key
             ELSE [key |-> Bucket(k).key, value |-> Bucket(k).value]]
MapIterDone ==
    \/ TheIter.n = 0
    \/ TheIter.pos >= TheIter.end
    \/ (IsView("next") /\ vout.ret = None)

\* C12: over a readable bucket array of live entries and tombstones, the
\* iterator of a Map yields exactly the first min(size, number of
\* non-tombstones) non-tombstone entries as (key, value) in the order of the
\* bucket array, never a tombstone and never more than the cached size; the
\* iterator of a Set yields the keys of that sequence.
C12_MapIterLiveEntries ==
    (view # None /\ iter # None /\ BucketsReadable) =>
        /\ Len(yielded) <= Min(TheView.size, Cardinality(NonTombstones))
        /\ \A j \in 1..Len(yielded) : yielded[j] = ExpectedPair(j)
        /\ MapIterDone =>
             Len(yielded) = Min(TheView.size, Cardinality(NonTombstones))

C12_Witness ==
    /\ view # None
    /\ iter # None
    /\ TheIter.kind = "map"
    /\ BucketsReadable
    /\ TheView.entries.size = 2
    /\ Tombstone(Bucket(0))
    /\ Bucket(1).hash = 0
    /\ Bucket(1).next # 0
    /\ TheView.size >= 1
    /\ IsView("next")
    /\ Len(vout.reads) = 2
    /\ yielded = <<[at |-> BucketAddr(1),
                    val |-> [key |-> Bucket(1).key, value |-> Bucket(1).value]]>>

\* The operations on a resolved view, and the address of its header size.
ViewOps == {"size", "iter", "next", "get", "as_slice"}
HeaderSizeAddr == TheView.addr + ARRAY_SIZE
ReadsOf(out) == {out.reads[k] : k \in 1..Len(out.reads)}

\* C15: the size in the header is read exactly once, at resolution: no later
\* operation on the view reads the size field of the header again, and the
\* extent an operation covers is the cached size even if the target has
\* changed the header since.
C15_SizeReadOnce ==
    (view # None /\ vout.op \in ViewOps) =>
        /\ HeaderSizeAddr \notin ReadsOf(vout)
        /\ IsView("size") => vout.ret = Some(TheView.size)
        /\ (IsView("as_slice") /\ vout.ret # None) =>
             Unwrap(vout.ret).len = TheView.size
        /\ iter # None => TheIter.end = TheView.addr + ARRAY_DATA + tsize * TheView.size

\* The reads the resolution of the Map or Set at ptr requires, in order: the
\* size, the pointer to the bucket array, the size in the header of that array.
RequiredReads ==
    LET entries == ReaderRead(heap, ptr + MAP_ENTRIES) IN
    <<ptr + MAP_SIZE, ptr + MAP_ENTRIES>>
        \o (IF entries = None THEN <<>> ELSE <<Unwrap(entries) + ARRAY_SIZE>>)
Failed(addr) == ReaderRead(heap, addr) = None
FirstFailure ==
    IF \E k \in 1..Len(RequiredReads) : Failed(RequiredReads[k])
    THEN CHOOSE k \in 1..Len(RequiredReads) :
            /\ Failed(RequiredReads[k])
            /\ \A j \in 1..(k - 1) : ~Failed(RequiredReads[j])
    ELSE 0

UnitAddr(k) == TheView.addr + CSSTRING_DATA + U16_SIZE * k
Unit(k) == Unwrap(ReaderRead(heap, UnitAddr(k)))
UnitsReadable ==
    \A k \in 0..(TheView.size - 1) : ReaderRead(heap, UnitAddr(k)) # None
SurrogatesAt == {k \in 0..(TheView.size - 1) : Unit(k) \in 55296..57343}
CharsDone == (IsView("next") /\ vout.ret = None)
                \/ (TheIter.pos >= TheIter.end /\ TheIter.buf = None)

\* C17: for a CSString of n readable code units of which exactly one, at
\* position k, is a surrogate, chars yields exactly n characters: U+FFFD at
\* position k and the character of the code unit at every other position.
C17_UnpairedSurrogate ==
    (view # None /\ iter # None /\ UnitsReadable /\ Cardinality(SurrogatesAt) = 1) =>
        /\ Len(yielded) <= TheView.size
        /\ \A j \in 1..Len(yielded) :
             /\ yielded[j].at = UnitAddr(j - 1)
             /\ yielded[j].val = IF j - 1 \in SurrogatesAt THEN 65533 ELSE Unit(j - 1)
        /\ CharsDone => Len(yielded) = TheView.size
        /\ Len(yielded) < TheView.size => ~(IsView("next") /\ vout.ret = None)

C17_Witness ==
    /\ view # None
    /\ iter # None
    /\ UnitsReadable
    /\ TheView.size = 2
    /\ Unit(0) = 55357
    /\ Unit(1) = 65
    /\ IsView("next")
    /\ vout.ret = None
    /\ yielded = <<[at |-> UnitAddr(0), val |-> 65533], [at |-> UnitAddr(1), val |-> 65]>>

\* A data read of the last call failed.
DataReadFailed ==
    IsRead /\ \E k \in 1..Len(last.reads) : last.reads[k].val = None
\* The answer the capability gave for field n in the last call, if asked.
AnswerFor(n) ==
    IF \E k \in 1..Len(last.looked) : last.looked[k].name = n
    THEN last.looked[CHOOSE k \in 1..Len(last.looked) : last.looked[k].name = n].ans
    ELSE None

\* C18: bind() leaves the class slot and every field slot empty and performs
\* no lookup or read; a call of class or read leaves every filled slot as it
\* was, and fills an empty slot only with the answer of a successful lookup
\* made in that call.
C18_CacheMonotone ==
    /\ last.op = "bind" =>
          /\ class = None
          /\ \A n \in Declared : slots[n] = None
          /\ total = [class |-> 0, static |-> 0, field |-> 0, reads |-> 0]
    /\ IsCall =>
          /\ last.pre_class # None => class = last.pre_class
          /\ class # last.pre_class =>
                (last.class_lookups = 1 /\ last.class_ans # None
                    /\ class = last.class_ans)
          /\ \A n \in Declared :
                /\ last.pre_slots[n] # None => slots[n] = last.pre_slots[n]
                /\ slots[n] # last.pre_slots[n] =>
                      (AnswerFor(n) # None /\ slots[n] = AnswerFor(n))

C18_Witness ==
    /\ IsRead /\ calls >= 2
    /\ last.pre_class # None /\ class = last.pre_class
    /\ \E a, b \in Declared :
          /\ last.pre_slots[a] # None /\ slots[a] = last.pre_slots[a]
          /\ last.pre_slots[b] = None /\ slots[b] # None
          /\ slots[b] = AnswerFor(b)

\* C19: when read returns None because a data read failed, the class slot
\* and every field slot hold what the lookups of that call left in them
\* (the cached value, or the answer just looked up), none is empty, and a
\* read that starts with all of them filled makes no lookup.
C19_FailedReadKeepsCaches ==
    /\ DataReadFailed =>
          /\ last.ret = "none"
          /\ class # None
          /\ class = (IF last.pre_class # None THEN last.pre_class ELSE last.class_ans)
          /\ \A n \in Declared :
                /\ slots[n] # None
                /\ slots[n] = (IF last.pre_slots[n] # None THEN last.pre_slots[n]
                               ELSE AnswerFor(n))
          /\ resolved
    /\ (IsRead /\ last.pre_class # None /\ \A n \in Declared : last.pre_slots[n] # None) =>
          (last.class_lookups = 0 /\ last.looked = <<>>)

\* The read after one whose lookups all succeeded and whose data read failed.
C19_Witness ==
    /\ IsRead /\ calls = 2 /\ total.reads = 2
    /\ last.pre_resolved /\ last.prev = None
    /\ Len(desc.fields) = 2
    /\ \A n \in Declared : last.pre_slots[n] # None
    /\ last.class_lookups = 0 /\ last.looked = <<>>
    /\ total.class = 1
    /\ DataReadFailed

\* C20: a read issues a data read only when the class handle and the address
\* or offset of every field have been obtained in that call; when the lookup
\* of the class or of a field fails (or panics), the call has read no data,
\* not even the singleton's.
C20_ResolveBeforeRead ==
    IsRead =>
        /\ last.reads # <<>> =>
              /\ class # None
              /\ \A n \in Declared : slots[n] # None
              /\ \A k \in 1..Len(last.looked) : last.looked[k].ans # None
              /\ last.ret \in {"some", "none"}
        /\ (\E k \in 1..Len(last.looked) : last.looked[k].ans = None) =>
              (last.reads = <<>> /\ last.ret = "none")
        /\ (last.class_lookups > 0 /\ last.class_ans = None) => last.reads = <<>>
        /\ last.ret = "panic" => last.reads = <<>>

C20_Witness ==
    /\ IsRead /\ Singletons # {}
    /\ Len(last.looked) = 2
    /\ last.looked[1].name \in Singletons /\ last.looked[1].ans # None
    /\ last.looked[2].ans = None
    /\ last.reads = <<>> /\ last.ret = "none"

\* C21: class and read share one class slot: a call of either that finds the
\* slot filled makes no class lookup and leaves the handle as it is; a
\* successful class lookup happens only on an empty slot, so while the slot is
\* empty every lookup made so far has failed, and there is at most one
\* successful class lookup over the calls of a binding.
C21_SharedClassCache ==
    /\ IsCall =>
          /\ last.pre_class # None => (last.class_lookups = 0 /\ class = last.pre_class)
          /\ last.class_lookups <= 1
          /\ (last.class_lookups = 1 /\ last.class_ans # None) =>
                (last.pre_class = None /\ class = last.class_ans)
          /\ (last.class_lookups = 1 /\ last.class_ans = None) => class = None
    /\ (pc = "bound" /\ class = None) => total.class = calls
    /\ (pc = "bound" /\ class # None) => (total.class >= 1 /\ total.class <= calls)

\* The handle was obtained by a read; the class() after it looks nothing up.
C21_Witness ==
    /\ calls = 2 /\ total.reads = 1 /\ total.class = 1
    /\ last.op = "class" /\ last.ret = "some"
    /\ last.pre_class # None /\ last.class_lookups = 0
    /\ class = last.pre_class

\* The pointer to the backing array in the List at ptr is null.
NullBacking == ReaderRead(heap, ptr + LIST_ITEMS) = Some(0)

\* C22: when the pointer to the backing array read by the resolution of a
\* List is 0, the resolution yields None and issues no read of an Array
\* header at 0 + 0x18.
C22_NullBackingPointer ==
    (IsView("resolve") /\ NullBacking) =>
        /\ vout.ret = None
        /\ (0 + ARRAY_SIZE) \notin ReadsOf(vout)

\* The element the iterator of the Array fetches next, the element the last
\* call of next fetched, and the elements of the view by address.
NextIndex == Len(yielded)
FetchedIndex == IF vout.ret = None THEN Len(yielded) ELSE Len(yielded) - 1
ElemAddrs == {ElemAddr(k) : k \in 0..(TheView.size - 1)}

\* C23: an iterator of an Array at a with cached size n reads only at
\* a + 0x20 + k * sizeof(T) with 0 <= k < n, in non-decreasing k; it reads an
\* address again only after the read of it failed, so its successful reads are
\* in strictly increasing k and the items are a prefix of the elements; a
\* failed read yields no item and leaves the position where it was.
C23_IterReads ==
    (view # None /\ iter # None) =>
        /\ \A j \in 1..Len(issued) : issued[j] \in ElemAddrs
        /\ \A j \in 1..(Len(issued) - 1) :
             \/ issued[j] < issued[j + 1]
             \/ (issued[j] = issued[j + 1] /\ ReaderRead(heap, issued[j]) = None)
        /\ Len(yielded) <= TheView.size
        /\ \A j \in 1..Len(yielded) :
             yielded[j] = [at |-> ElemAddr(j - 1), val |-> Unwrap(Elem(j - 1))]
        /\ TheIter.pos = ElemAddr(NextIndex)
        /\ IsView("next") =>
             \/ /\ vout.reads = <<>>
                /\ vout.ret = None
                /\ Len(yielded) = TheView.size
             \/ /\ vout.reads = <<ElemAddr(FetchedIndex)>>
                /\ FetchedIndex >= 0
                /\ FetchedIndex < TheView.size
                /\ vout.ret = Elem(FetchedIndex)
                /\ issued # <<>>
                /\ issued[Len(issued)] = ElemAddr(FetchedIndex)

\* C23 (as claimed): the reads of the iterator are in strictly increasing k.
C23_StrictlyIncreasingReads ==
    (view # None /\ iter # None) =>
        /\ \A j \in 1..Len(issued) : issued[j] \in ElemAddrs
        /\ \A j \in 1..(Len(issued) - 1) : issued[j] < issued[j + 1]

\* Element 0 was yielded, the read of element 1 failed and was made again.
C23_Witness ==
    /\ view # None
    /\ iter # None
    /\ TheView.size >= 2
    /\ IsView("next")
    /\ vout.ret = None
    /\ issued = <<ElemAddr(0), ElemAddr(1), ElemAddr(1)>>
    /\ Len(yielded) = 1
    /\ TheIter.pos = ElemAddr(1)

\* The elements the iterator has still to yield when every read succeeds.
ToYield == TheView.size - Len(yielded)

\* C24: at every point of an iteration over an Array, size_hint returns
\* (r, Some(r)) with r the number of elements the iterator has still to
\* yield; r = n for a fresh iterator, whatever the size of an element.
C24_SizeHintElements ==
    (view # None /\ iter # None /\ IsView("size_hint")) =>
        vout.ret = Some([lower |-> ToYield, upper |-> Some(ToYield)])

====
